---- MODULE Spec2Model ----
(***************************************************************************)
(* State-machine model of build_docs.py: the coordination run of           *)
(* build_docs (one process per command-line invocation, several may run    *)
(* at once), the advisory lock of build_docs_with_lock, DocBuilder.run     *)
(* with its steps, the rebuild gate (load_state, should_rebuild,           *)
(* save_state) over the state-*.toml files, and the version directories    *)
(* and symlinks of the web root (specification Spec); the functions and    *)
(* methods that are checked one call at a time (specification Functions); *)
(* and the event loop of build_docs_server.py (specification Server).      *)
(*                                                                         *)
(* Abstractions: a git revision (sha) is a number in Revs; a file path is  *)
(* a sequence of path segments and the text printed by                     *)
(* "git diff --name-only" is the sequence of tokens of its lines           *)
(* (segments, "/" and "\n"), so that the substring tests of should_rebuild *)
(* are substring tests here; a state file is absent, unparseable or a      *)
(* document mapping keys to records; the timestamps of a record are left   *)
(* out (no decision reads them).                                           *)
(***************************************************************************)
EXTENDS Integers, Sequences, FiniteSets, TLC

\* ---------------------------------------------------------------- bounds
\* Revisions a checkout's HEAD can be at.
MaxRev == 2
\* Greatest number of paths one "git diff --name-only" output lists.
MaxChanged == 1
\* Greatest number of branches a translation repository has.
MaxAvailable == 2
\* Greatest number of entries of the release-cycle feed and of a catalog.
MaxReleases == 3
\* Greatest number of children of the webhook server at a time.
MaxChildren == 2
\* Greatest number of webhook requests waiting for the server.
MaxRequests == 2
\* Greatest number of os.waitid calls counted while child_waiter keeps the
\* thread.
MaxPolls == 2

Revs == 1..MaxRev

\* Processes started from the command line (cron, webhook server).
Instances == {1, 2}

\* ------------------------------------------------------ program constants
EX_OK == 0
EX_FAILURE == 70
\* Exit status of the interpreter when an exception leaves main().
EX_UNCAUGHT == 1

\* --select-output: None is written "none".
Modes == {"none", "no-html", "only-html", "only-html-en"}

\* main(): the lock file of each output mode.
LockFileOf(select_output) ==
    CASE select_output = "none" -> "build_docs.lock"
      [] select_output = "no-html" -> "build_docs_archives.lock"
      [] select_output = "only-html" -> "build_docs_html.lock"
      [] select_output = "only-html-en" -> "build_docs_html_en.lock"

LockFiles == {LockFileOf(m) : m \in Modes}

\* load_state / save_state: the state file of each output mode.
StateFileOf(select_output) ==
    IF select_output # "none"
    THEN CASE select_output = "no-html" -> "state-no-html.toml"
           [] select_output = "only-html" -> "state-only-html.toml"
           [] select_output = "only-html-en" -> "state-only-html-en.toml"
    ELSE "state.toml"

StateFileNames == {StateFileOf(m) : m \in Modes}

\* _checkout_name: the CPython clone of each output mode.
CheckoutName(select_output) ==
    IF select_output # "none"
    THEN CASE select_output = "no-html" -> "cpython-no-html"
           [] select_output = "only-html" -> "cpython-only-html"
           [] select_output = "only-html-en" -> "cpython-only-html-en"
    ELSE "cpython"

Checkouts == {CheckoutName(m) : m \in Modes}

\* ---------------------------------------------------------------- catalogs
\* Versions.from_json: the catalog, sorted by Version.as_tuple.
VersionCatalog ==
    << [name |-> "3.12", status |-> "security-fixes", branch_or_tag |-> "3.12"],
       [name |-> "3.13", status |-> "stable", branch_or_tag |-> "3.13"],
       [name |-> "3.14", status |-> "in development", branch_or_tag |-> "main"] >>

\* Languages.from_json: the catalog in config.toml order.
LanguageCatalog ==
    << [tag |-> "en", html_only |-> FALSE],
       [tag |-> "fr", html_only |-> TRUE] >>

VersionNames == {VersionCatalog[k].name : k \in 1..Len(VersionCatalog)}
LanguageTags == {LanguageCatalog[k].tag : k \in 1..Len(LanguageCatalog)}

LanguageOf(tag) ==
    LanguageCatalog[CHOOSE k \in 1..Len(LanguageCatalog) : LanguageCatalog[k].tag = tag]

\* The values an argument can be: None, a str, a list of str.
None == [type |-> "NoneType", value |-> ""]
Str(text) == [type |-> "str", value |-> text]
List(items) == [type |-> "list", value |-> items]

\* bool(x)
Truthy(x) ==
    CASE x.type = "str" -> x.value # ""
      [] x.type = "list" -> x.value # <<>>
      [] x.type = "NoneType" -> FALSE

\* x == y: values of different types are not equal.
Eq(x, y) == x.type = y.type /\ x.value = y.value

\* Variant for C15: the security-fixes versions are live too.
Versions_filter_NotEOL(self, branch) ==
    LET byName(v) == Eq(branch, Str(v.name)) \/ Eq(branch, Str(v.branch_or_tag))
        live(v) == v.status \notin {"EOL"}
    IN  IF Truthy(branch) THEN SelectSeq(self, byName)
        ELSE SelectSeq(self, live)

\* Versions.filter(self, branch): branch in (v.name, v.branch_or_tag), or
\* the live versions when branch is empty.
Versions_filter(self, branch) ==
    LET byName(v) == Eq(branch, Str(v.name)) \/ Eq(branch, Str(v.branch_or_tag))
        live(v) == v.status \notin {"EOL", "security-fixes"}
    IN  IF Truthy(branch) THEN SelectSeq(self, byName)
        ELSE SelectSeq(self, live)

\* versions.filter(args.branch) on the catalog: branch "" is "no branch given".
VersionsFilter(branch) == Versions_filter(VersionCatalog, Str(branch))

\* Languages.filter(language_tags): the tags as a set (frozenset).
LanguagesFilter(language_tags) ==
    LET wanted(l) == l.tag \in language_tags
    IN  IF language_tags # {} THEN SelectSeq(LanguageCatalog, wanted)
        ELSE LanguageCatalog

\* Variant for C27: the languages not reversed.
TodoListNotReversed(vs, ls) ==
    LET n == Len(ls)
    IN  [k \in 1..(Len(vs) * n) |->
            [version  |-> vs[((k - 1) \div n) + 1].name,
             language |-> ls[((k - 1) % n) + 1].tag]]

\* build_docs: the todo list, version-major, the languages reversed.
TodoList(vs, ls) ==
    LET n == Len(ls)
    IN  [k \in 1..(Len(vs) * n) |->
            [version  |-> vs[((k - 1) \div n) + 1].name,
             language |-> ls[n - ((k - 1) % n)].tag]]

\* build_docs: the todo list of the catalog.
Todo(branch, language_tags) ==
    TodoList(VersionsFilter(branch), LanguagesFilter(language_tags))

\* while todo: todo.pop() -- the pairs in the order they are taken.
PopOrder(list) == [k \in 1..Len(list) |-> list[Len(list) - k + 1]]

Pairs == [version : VersionNames, language : LanguageTags]

\* The translation checkout of a pair: build_root/<version>/locale/<tag>/LC_MESSAGES.
LocaleDirs == VersionNames \X (LanguageTags \ {"en"})

\* ------------------------------------------------------------- state files
\* The key of a pair in a state file: "/{language.tag}/{version.name}/".
KeyOf(pair) == <<pair.language, pair.version>>

Keys == {KeyOf(p) : p \in Pairs}

NoDoc == <<>>
AbsentFile == [kind |-> "absent", doc |-> NoDoc]
CorruptFile == [kind |-> "corrupt", doc |-> NoDoc]
DocFile(doc) == [kind |-> "doc", doc |-> doc]

\* Variant for C5: the two revisions stored in each other's field.
StateRecordSwapped(tag, trigger, cpython_sha, translation_sha) ==
    [triggered_by |-> trigger,
     cpython_sha |-> IF tag # "en" THEN translation_sha ELSE cpython_sha,
     translation_sha |-> IF tag # "en" THEN <<cpython_sha>> ELSE <<>>]

\* The record save_state builds: translation_sha only for a translation.
StateRecord(tag, trigger, cpython_sha, translation_sha) ==
    [triggered_by |-> trigger,
     cpython_sha |-> cpython_sha,
     translation_sha |-> IF tag # "en" THEN <<translation_sha>> ELSE <<>>]

\* load_state: {} (written <<>>) when the file or the key is missing.
LoadState(files, select_output, key) ==
    LET file == files[StateFileOf(select_output)]
    IN  IF file.kind = "doc" /\ key \in DOMAIN file.doc
        THEN <<file.doc[key]>> ELSE <<>>

\* Variant for C9: a new document with the one record, nothing read back.
SaveStateDocFresh(file, key, record) ==
    [k \in {key} |-> record]

\* save_state: the document written back, the record of key replaced.
SaveStateDoc(file, key, record) ==
    LET states == IF file.kind = "absent" THEN NoDoc ELSE file.doc
    IN  [k \in (DOMAIN states) \cup {key} |->
            IF k = key THEN record ELSE states[k]]

\* ------------------------------------------------------------ should_rebuild
\* Paths a commit can touch.
ChangedPaths ==
    { <<"Doc", "a.rst">>, <<"Lib", "a.py">>, <<"Misc", "NEWS.d", "a.rst">>,
      <<"Misc", "a.rst">>, <<"Tools", "Doc", "a.py">> }

RECURSIVE SeqsOfPaths(_)
SeqsOfPaths(n) ==
    IF n = 0 THEN {<<>>}
    ELSE LET shorter == SeqsOfPaths(n - 1)
         IN  shorter \cup
             {Append(s, p) : s \in {t \in shorter : Len(t) = n - 1},
                             p \in ChangedPaths}

\* The lists of paths "git diff --name-only" can print (no path twice).
DiffLists ==
    {s \in SeqsOfPaths(MaxChanged) :
        \A a, b \in 1..Len(s) : a # b => s[a] # s[b]}

RECURSIVE PathText(_)
PathText(path) ==
    IF Len(path) = 1 THEN <<path[1]>>
    ELSE <<path[1], "/">> \o PathText(Tail(path))

\* stdout of "git diff --name-only": one path per line.
RECURSIVE DiffText(_)
DiffText(paths) ==
    IF paths = <<>> THEN <<>>
    ELSE PathText(Head(paths)) \o <<"\n">> \o DiffText(Tail(paths))

\* needle in text
Contains(text, needle) ==
    \E k \in 0..(Len(text) - Len(needle)) :
        SubSeq(text, k + 1, k + Len(needle)) = needle

\* The git commands should_rebuild can run.
RevParseCPython == "rev-parse HEAD (cpython)"
RevParseTranslation == "rev-parse HEAD (translation)"
GitDiff == "diff --name-only"

\* if "Doc/" in diff or "Misc/NEWS.d/" in diff
DocsInDiff(diff) ==
    \/ Contains(DiffText(diff), <<"Doc", "/">>)
    \/ Contains(DiffText(diff), <<"Misc", "/", "NEWS.d", "/">>)

\* Variant for C7: the source comparison before the translation comparison.
ShouldRebuildSourceFirst(state, tag, cpython_sha, translation_sha, diff) ==
    LET revs == IF tag # "en" THEN {RevParseCPython, RevParseTranslation}
                ELSE {RevParseCPython}
    IN  IF state = <<>>
        THEN [result |-> "no previous state", ran |-> {}]
        ELSE IF cpython_sha # state[1].cpython_sha /\ DocsInDiff(diff)
        THEN [result |-> "Doc/ has changed", ran |-> revs \cup {GitDiff}]
        ELSE IF tag # "en" /\ <<translation_sha>> # state[1].translation_sha
        THEN [result |-> "new translations", ran |-> revs]
        ELSE [result |-> "False", ran |-> revs]

\* Variant for C6: the revisions asked for before the state is looked at.
ShouldRebuildEager(state, tag, cpython_sha, translation_sha, diff) ==
    LET revs == IF tag # "en" THEN {RevParseCPython, RevParseTranslation}
                ELSE {RevParseCPython}
    IN  IF state = <<>>
        THEN [result |-> "no previous state", ran |-> revs]
        ELSE IF tag # "en" /\ <<translation_sha>> # state[1].translation_sha
        THEN [result |-> "new translations", ran |-> revs]
        ELSE IF cpython_sha # state[1].cpython_sha
        THEN [result |-> IF DocsInDiff(diff) THEN "Doc/ has changed" ELSE "False",
              ran |-> revs \cup {GitDiff}]
        ELSE [result |-> "False", ran |-> revs]

\* should_rebuild: its return value (False is written "False") and the git
\* commands it ran. state is load_state's result, diff what
\* git diff --name-only prints for the stored and the current revision.
ShouldRebuild(state, tag, cpython_sha, translation_sha, diff) ==
    LET revs == IF tag # "en" THEN {RevParseCPython, RevParseTranslation}
                ELSE {RevParseCPython}
    IN  IF state = <<>>
        THEN [result |-> "no previous state", ran |-> {}]
        ELSE IF tag # "en" /\ <<translation_sha>> # state[1].translation_sha
        THEN [result |-> "new translations", ran |-> revs]
        ELSE IF cpython_sha # state[1].cpython_sha
        THEN [result |-> IF DocsInDiff(diff) THEN "Doc/ has changed" ELSE "False",
              ran |-> revs \cup {GitDiff}]
        ELSE [result |-> "False", ran |-> revs]

\* ------------------------------------------------------------------ state
VARIABLES
    args,             \* per process: the parsed command line
    sentry_sdk,       \* whether the sentry_sdk module could be imported
    pc,               \* per process: where it is
    lock,             \* per lock file: the process holding it (0: nobody)
    lock_error,       \* per process: zc.lockfile raised LockError
    todo,             \* per process: build_docs' todo list
    cur,              \* per process: the pair being built (<<>>: none)
    build_succeeded,  \* per process: build_docs' build_succeeded
    build_failed,     \* per process: build_docs' build_failed
    head,             \* per CPython clone: <<>> (no clone) or <<HEAD>>
    thead,            \* per translation clone: <<>> (no clone) or <<HEAD>>
    state_files,      \* per state file name: its content
    steps,            \* per process: the steps DocBuilder.run completed in this call
    sr,               \* per process: the locals of the last should_rebuild call
    trigger,          \* per process: run's trigger_reason
    ret,              \* per process: <<>> or <<build_docs_with_lock's return value>>
    exit_status,      \* per process: <<>> or <<the exit status of the process>>
    call,             \* a function called on its own: its name and arguments
    returned,         \* <<>> or <<what that call returned or raised>>
    updated,          \* per process: cpython_repo.update() has run in build_docs
    www_root,         \* the web root: its version directories and its symlinks
    server            \* build_docs_server.py: the event loop and the children

vars == << args, sentry_sdk, pc, lock, lock_error, todo, cur, build_succeeded,
           build_failed, head, thead, state_files, steps, sr, trigger, ret,
           exit_status, call, returned, updated, www_root, server >>

\* The command lines the processes are started with: one process sweeping
\* every live version and language, or two processes building one version
\* in the same or in different output modes. A process that is not started
\* stays "idle".
Idle == [started |-> FALSE, select_output |-> "none", branch |-> "", languages |-> {}]

CommandLine(select_output, branch, languages) ==
    [started |-> TRUE, select_output |-> select_output, branch |-> branch,
     languages |-> languages]

ArgChoices ==
    { [i \in Instances |-> IF i = 1 THEN CommandLine(m, "", {}) ELSE Idle] :
        m \in {"none", "no-html"} }
    \cup
    { [i \in Instances |-> IF i = 1 THEN CommandLine("none", "3.14", {})
                                     ELSE CommandLine(m, "3.14", {})] :
        m \in {"none", "no-html"} }

\* ---------------------------------------------------------------- web root
\* Versions.current_stable: the greatest version with status "stable" (the
\* catalog is sorted by as_tuple).
CurrentStable ==
    VersionCatalog[CHOOSE k \in 1..Len(VersionCatalog) :
        /\ VersionCatalog[k].status = "stable"
        /\ \A j \in (k + 1)..Len(VersionCatalog) :
              VersionCatalog[j].status # "stable"]

\* Versions.current_dev: the greatest version.
CurrentDev == VersionCatalog[Len(VersionCatalog)]

\* make_symlinks: the names of the links, in the order of its loop.
SymlinkNames == <<"3", "2", "dev">>

\* make_symlinks: the directory each name is to point at.
SymlinkTarget(name) ==
    CASE name = "3" -> CurrentStable.name
      [] name = "2" -> "2.7"
      [] name = "dev" -> CurrentDev.name

\* A link is <<language tag, name>>: www_root/<name> for "en",
\* www_root/<tag>/<name> otherwise; a directory is <<tag, directory>>.
Links == {<<tag, SymlinkNames[k]>> : tag \in LanguageTags, k \in 1..Len(SymlinkNames)}

\* A symlink: what readlink gives and the process whose run made it (0: a
\* run before the ones modelled); a link made again is another link.
Link(directory, made_by) == [directory |-> directory, made_by |-> made_by]

\* The web root of a machine that never built.
EmptyWebRoot == [dirs |-> {}, links |-> [l \in Links |-> <<>>]]

\* The web root of a machine that built English before 3.14 was branched:
\* 3.13 is what both /3/ and /dev/ point at.
EarlierWebRoot ==
    [dirs |-> {<<"en", "3.12">>, <<"en", "3.13">>},
     links |-> [l \in Links |->
                  IF l[1] = "en" /\ l[2] \in {"3", "dev"}
                  THEN <<Link("3.13", 0)>> ELSE <<>>]]

\* link.exists(): the link is there and so is what it points at.
LinkExists(www, link) ==
    /\ www.links[link] # <<>>
    /\ <<link[1], www.links[link][1].directory>> \in www.dirs

\* Variant for C21: the link is made again whatever it points at.
SymlinkAlways(www, language_tag, directory, name, i) ==
    LET link == <<language_tag, name>>
    IN  IF <<language_tag, directory>> \notin www.dirs
        THEN www
        ELSE [www EXCEPT !.links[link] = <<Link(directory, i)>>]

\* symlink(): nothing without the directory; the link is replaced when it
\* does not exist or points elsewhere, and left alone otherwise.
Symlink(www, language_tag, directory, name, i) ==
    LET link == <<language_tag, name>>
    IN  IF <<language_tag, directory>> \notin www.dirs
        THEN www
        ELSE IF ~LinkExists(www, link) \/ www.links[link][1].directory # directory
             THEN [www EXCEPT !.links[link] = <<Link(directory, i)>>]
             ELSE www

\* make_symlinks: the iterations of its two loops, in order.
SymlinkIterations ==
    [k \in 1..(Len(SymlinkNames) * Len(LanguageCatalog)) |->
        [name |-> SymlinkNames[((k - 1) \div Len(LanguageCatalog)) + 1],
         tag |-> LanguageCatalog[((k - 1) % Len(LanguageCatalog)) + 1].tag]]

\* make_symlinks after its first n iterations, called by process i: symlink
\* is called for the pairs of successful_builds only.
RECURSIVE MakeSymlinks(_, _, _, _)
MakeSymlinks(www, successful_builds, n, i) ==
    IF n = 0 THEN www
    ELSE LET before == MakeSymlinks(www, successful_builds, n - 1, i)
             it == SymlinkIterations[n]
             symlink_target == SymlinkTarget(it.name)
         IN  IF [version |-> symlink_target, language |-> it.tag]
                    \in successful_builds
             THEN Symlink(before, it.tag, symlink_target, it.name, i)
             ELSE before

\* build_docs_server.py is not running.
NoServer == [running |-> "off"]

NoCall == [called |-> FALSE]

\* No function is called on its own while the processes run.
NoFunction == [function |-> ""]

Init ==
    /\ args \in ArgChoices
    /\ sentry_sdk \in BOOLEAN
    /\ pc = [i \in Instances |-> IF args[i].started THEN "main" ELSE "idle"]
    /\ lock = [f \in LockFiles |-> 0]
    /\ lock_error = [i \in Instances |-> FALSE]
    /\ todo = [i \in Instances |-> <<>>]
    /\ cur = [i \in Instances |-> <<>>]
    /\ build_succeeded = [i \in Instances |-> {}]
    /\ build_failed = [i \in Instances |-> {}]
    /\ \E cloned \in BOOLEAN :
          /\ head = [c \in Checkouts |-> IF cloned THEN <<1>> ELSE <<>>]
          /\ www_root = IF cloned THEN EarlierWebRoot ELSE EmptyWebRoot
    /\ thead = [d \in LocaleDirs |-> <<>>]
    /\ state_files = [f \in StateFileNames |-> AbsentFile]
    /\ steps = [i \in Instances |-> {}]
    /\ sr = [i \in Instances |-> NoCall]
    /\ trigger = [i \in Instances |-> ""]
    /\ ret = [i \in Instances |-> <<>>]
    /\ exit_status = [i \in Instances |-> <<>>]
    /\ updated = [i \in Instances |-> FALSE]
    /\ server = NoServer
    /\ call = NoFunction
    /\ returned = <<>>

Mode(i) == args[i].select_output
Checkout(i) == CheckoutName(Mode(i))
Pair(i) == cur[i][1]
Tag(i) == Pair(i).language
LocaleDir(i) == <<Pair(i).version, Tag(i)>>

\* DocBuilder.includes_html
IncludesHtml(select_output) == select_output # "no-html"

\* ------------------------------------------------------ working directories
\* A path is the sequence of its segments below build_root.
\* DocBuilder.checkout: the CPython clone of the output mode.
CheckoutPath(select_output) == <<CheckoutName(select_output)>>

\* DocBuilder.translation_repo: the clone of a translation, per version and
\* language; the output mode is no part of the path.
TranslationRepoPath(version, tag) == <<version, "locale", tag, "LC_MESSAGES">>

\* build_venv: venv_path = build_root / ("venv-" + version.name).
VenvPath(version) == <<"venv-", version>>

\* The directories the step a process is at writes to: switch resets and
\* cleans the checkout, clone_translation clones or fetches and resets the
\* translation clone, build_venv creates the venv and installs into it,
\* build runs make in the checkout with the venv's sphinx-build.
WorkingDirectories(i) ==
    CASE pc[i] = "run" -> {CheckoutPath(Mode(i))}
      [] pc[i] = "clone_translation" ->
            {TranslationRepoPath(Pair(i).version, Tag(i))}
      [] pc[i] = "build_venv" -> {VenvPath(Pair(i).version)}
      [] pc[i] = "build" -> {CheckoutPath(Mode(i))}
      [] OTHER -> {}

\* ------------------------------------------------------- build_docs_with_lock
\* Variant for C3: LockError never raised.
LockFreeAlways(locks, file) == TRUE

\* zc.lockfile.LockFile(path) succeeds when nobody holds the file.
LockFree(locks, file) == locks[file] = 0

\* main and the first half of build_docs_with_lock: take the lock or return
\* EX_FAILURE; main drops the value, so the process exits with status 0.
BuildDocsWithLock(i) ==
    /\ pc[i] = "main"
    /\ LET file == LockFileOf(Mode(i))
       IN  IF LockFree(lock, file)
           THEN /\ lock' = [lock EXCEPT ![file] = i]
                /\ pc' = [pc EXCEPT ![i] = "build_docs"]
                /\ UNCHANGED << lock_error, ret, exit_status >>
           ELSE /\ lock_error' = [lock_error EXCEPT ![i] = TRUE]
                /\ ret' = [ret EXCEPT ![i] = <<EX_FAILURE>>]
                /\ exit_status' = [exit_status EXCEPT ![i] = <<EX_OK>>]
                /\ pc' = [pc EXCEPT ![i] = "exited"]
                /\ UNCHANGED lock
    /\ UNCHANGED << args, sentry_sdk, todo, cur, build_succeeded, build_failed,
                    head, thead, state_files, steps, sr, trigger, call, returned,
                    server, updated, www_root >>

\* finally: lock.close() -- only the holder's lock is released.
Unlocked(i) ==
    [f \in LockFiles |-> IF lock[f] = i THEN 0 ELSE lock[f]]

\* An exception leaves build_docs: the lock is closed, main raises, the
\* interpreter exits with status 1.
Propagate(i) ==
    /\ lock' = Unlocked(i)
    /\ pc' = [pc EXCEPT ![i] = "exited"]
    /\ exit_status' = [exit_status EXCEPT ![i] = <<EX_UNCAUGHT>>]
    /\ UNCHANGED << ret, lock_error >>

\* build_docs up to the loop: fetch the release cycle, read config.toml,
\* build todo. A feed that cannot be fetched or parsed raises.
BuildDocsStart(i) ==
    /\ pc[i] = "build_docs"
    /\ \/ /\ todo' = [todo EXCEPT ![i] = Todo(args[i].branch, args[i].languages)]
          /\ pc' = [pc EXCEPT ![i] = "loop"]
          /\ UNCHANGED << lock, ret, exit_status, lock_error >>
       \/ /\ Propagate(i)
          /\ UNCHANGED todo
    /\ UNCHANGED << args, sentry_sdk, cur, build_succeeded, build_failed,
                    head, thead, state_files, steps, sr, trigger, call, returned,
                    server, updated, www_root >>

\* ---------------------------------------------------------------- Repository
\* What a method of Repository did: the commands it ran, in order, and the
\* exception that left it ("": none); `value` is what clone returned.
\* Whether a command succeeds is an input: ok[k] for the k-th command the
\* method can run.
Ran(commands, raised, value) ==
    [commands |-> commands, raised |-> raised, value |-> value]

\* Repository.clone: nothing when directory/.git is a directory, git clone
\* otherwise.
Repository_clone(is_clone, ok) ==
    IF is_clone THEN Ran(<<>>, "", FALSE)
    ELSE IF ok[1] THEN Ran(<<"clone">>, "", TRUE)
    ELSE Ran(<<"clone">>, "CalledProcessError", FALSE)

\* Variant for C24: no second git fetch.
Repository_fetch_NoRetry(ok) ==
    IF ok[1] THEN Ran(<<"fetch">>, "", FALSE)
    ELSE Ran(<<"fetch">>, "CalledProcessError", FALSE)

\* Repository.fetch: git fetch; when it fails, sleep(5) and git fetch once
\* more, outside the try.
Repository_fetch(ok) ==
    IF ok[1] THEN Ran(<<"fetch">>, "", FALSE)
    ELSE IF ok[2] THEN Ran(<<"fetch", "sleep", "fetch">>, "", FALSE)
    ELSE Ran(<<"fetch", "sleep", "fetch">>, "CalledProcessError", FALSE)

\* Repository.update: self.clone() or self.fetch()
Repository_update(is_clone, ok) ==
    LET cloned == Repository_clone(is_clone, ok)
    IN  IF cloned.raised # "" \/ cloned.value THEN cloned
        ELSE Repository_fetch(ok)

\* Repository.get_ref: show-ref of the branch, then of the tag.
Repository_get_ref(ok) ==
    IF ok[1] THEN Ran(<<"show-ref origin/">>, "", FALSE)
    ELSE IF ok[2] THEN Ran(<<"show-ref origin/", "show-ref tags/">>, "", FALSE)
    ELSE Ran(<<"show-ref origin/", "show-ref tags/">>, "CalledProcessError", FALSE)

\* Repository.switch: reset --hard to the reference, then clean -dfqx.
Repository_switch(ok) ==
    LET ref == Repository_get_ref(ok)
    IN  IF ref.raised # "" THEN ref
        ELSE IF ~ok[3]
             THEN Ran(ref.commands \o <<"reset">>, "CalledProcessError", FALSE)
        ELSE IF ~ok[4]
             THEN Ran(ref.commands \o <<"reset", "clean">>, "CalledProcessError", FALSE)
        ELSE Ran(ref.commands \o <<"reset", "clean">>, "", FALSE)

\* Repository.fetch as build_docs sees it: it returns or it raises.
Fetch(first_ok, second_ok) ==
    IF Repository_fetch(<<first_ok, second_ok>>).raised = "" THEN "ok" ELSE "raise"

\* while todo: pop a pair; with sentry_sdk, tag the scope and update the
\* CPython clone (clone() or fetch()), outside any try.
LoopPop(i) ==
    /\ pc[i] = "loop"
    /\ todo[i] # <<>>
    /\ LET n == Len(todo[i])
           c == Checkout(i)
       IN  /\ cur' = [cur EXCEPT ![i] = <<todo[i][n]>>]
           /\ todo' = [todo EXCEPT ![i] = SubSeq(todo[i], 1, n - 1)]
           /\ steps' = [steps EXCEPT ![i] = {}]
           /\ sr' = [sr EXCEPT ![i] = NoCall]
           /\ trigger' = [trigger EXCEPT ![i] = ""]
           /\ IF ~sentry_sdk
              THEN /\ pc' = [pc EXCEPT ![i] = "run"]
                   /\ UNCHANGED << head, lock, ret, exit_status, lock_error,
                                   updated >>
              ELSE IF head[c] = <<>>
              THEN \* clone
                   \/ \E r \in Revs :
                        /\ head' = [head EXCEPT ![c] = <<r>>]
                        /\ pc' = [pc EXCEPT ![i] = "run"]
                        /\ updated' = [updated EXCEPT ![i] = TRUE]
                        /\ UNCHANGED << lock, ret, exit_status, lock_error >>
                   \/ /\ Propagate(i)
                      /\ UNCHANGED << head, updated >>
              ELSE \* fetch
                   \E first_ok, second_ok \in BOOLEAN :
                      IF Fetch(first_ok, second_ok) = "ok"
                      THEN /\ pc' = [pc EXCEPT ![i] = "run"]
                           /\ updated' = [updated EXCEPT ![i] = TRUE]
                           /\ UNCHANGED << head, lock, ret, exit_status, lock_error >>
                      ELSE /\ Propagate(i)
                           /\ UNCHANGED << head, updated >>
    /\ UNCHANGED << args, sentry_sdk, build_succeeded, build_failed,
                    thead, state_files, call, returned, server, www_root >>

\* Variant for C26: a pair that was not rebuilt counted as built.
RunReturnsCountsNone(i, built_successfully) ==
    /\ pc' = [pc EXCEPT ![i] = "loop"]
    /\ build_succeeded' =
          [build_succeeded EXCEPT ![i] =
              IF built_successfully # "False" THEN @ \cup {Pair(i)} ELSE @]
    /\ build_failed' =
          [build_failed EXCEPT ![i] =
              IF built_successfully = "False" THEN @ \cup {Pair(i)} ELSE @]
    /\ cur' = [cur EXCEPT ![i] = <<>>]
    /\ steps' = [steps EXCEPT ![i] = {}]
    /\ trigger' = [trigger EXCEPT ![i] = ""]

\* build_docs after builder.run returned True, False or None; the builder
\* and its locals are dropped.
RunReturns(i, built_successfully) ==
    /\ pc' = [pc EXCEPT ![i] = "loop"]
    /\ build_succeeded' =
          [build_succeeded EXCEPT ![i] =
              IF built_successfully = "True" THEN @ \cup {Pair(i)} ELSE @]
    /\ build_failed' =
          [build_failed EXCEPT ![i] =
              IF built_successfully = "False" THEN @ \cup {Pair(i)} ELSE @]
    /\ cur' = [cur EXCEPT ![i] = <<>>]
    /\ steps' = [steps EXCEPT ![i] = {}]
    /\ trigger' = [trigger EXCEPT ![i] = ""]

\* Variant for C4: save_state right after the generator.
StepAfterNoPublish(step, tag) ==
    CASE step = "switch" ->
            IF tag # "en" THEN "clone_translation" ELSE "should_rebuild"
      [] step = "clone_translation" -> "should_rebuild"
      [] step = "should_rebuild" -> "build_venv"
      [] step = "build_venv" -> "build"
      [] step = "build" -> "save_state"
      [] step = "copy_build_to_webroot" -> "save_state"

\* The steps of DocBuilder.run's try block, in order.
StepAfter(step, tag) ==
    CASE step = "switch" ->
            IF tag # "en" THEN "clone_translation" ELSE "should_rebuild"
      [] step = "clone_translation" -> "should_rebuild"
      [] step = "should_rebuild" -> "build_venv"
      [] step = "build_venv" -> "build"
      [] step = "build" -> "copy_build_to_webroot"
      [] step = "copy_build_to_webroot" -> "save_state"

\* ------------------------------------------------------------ DocBuilder.run
\* An exception in the try block: logged, reported, run returns False.
RunRaises(i) == RunReturns(i, "False")

\* The try block goes on with the step after `step`.
RunGoesOn(i, step) ==
    /\ pc' = [pc EXCEPT ![i] = StepAfter(step, Tag(i))]
    /\ UNCHANGED << build_succeeded, build_failed, cur >>

\* The variables no step of run touches.
RunFrame ==
    UNCHANGED << args, sentry_sdk, lock, lock_error, todo, ret, exit_status,
                 call, returned, server, updated >>

\* run: an HTML-only language in a build without HTML is skipped (None).
RunSkipsHtmlOnly(i) ==
    /\ pc[i] = "run"
    /\ LanguageOf(Tag(i)).html_only /\ ~IncludesHtml(Mode(i))
    /\ RunReturns(i, "None")
    /\ RunFrame
    /\ UNCHANGED << head, thead, state_files, sr, www_root >>

\* run: cpython_repo.switch(branch_or_tag): get_ref, reset --hard, clean.
\* git -C fails on a directory that was never cloned.
Switch(i) ==
    /\ pc[i] = "run"
    /\ ~(LanguageOf(Tag(i)).html_only /\ ~IncludesHtml(Mode(i)))
    /\ LET c == Checkout(i)
       IN  \/ /\ head[c] # <<>>
              /\ \E r \in Revs : head' = [head EXCEPT ![c] = <<r>>]
              /\ RunGoesOn(i, "switch")
              /\ UNCHANGED << steps, trigger >>
           \/ /\ RunRaises(i)
              /\ UNCHANGED head
    /\ RunFrame
    /\ UNCHANGED << thead, state_files, sr, www_root >>

\* run: clone_translation: translation_repo.update(), then switch to the
\* nearest branch. A failure after the clone leaves the clone behind.
CloneTranslation(i) ==
    /\ pc[i] = "clone_translation"
    /\ LET d == LocaleDir(i)
       IN  \/ /\ \E r \in Revs : thead' = [thead EXCEPT ![d] = <<r>>]
              /\ RunGoesOn(i, "clone_translation")
              /\ UNCHANGED << steps, trigger >>
           \/ /\ RunRaises(i)
              /\ \/ UNCHANGED thead
                 \/ /\ thead[d] = <<>>
                    /\ \E r \in Revs : thead' = [thead EXCEPT ![d] = <<r>>]
    /\ RunFrame
    /\ UNCHANGED << head, state_files, sr, www_root >>

\* run: trigger_reason := should_rebuild(). The state file is read and, as
\* far as should_rebuild gets, git rev-parse and git diff are run; each can
\* raise, and so does a state file that does not parse. What git diff
\* would print is an input: nothing between equal revisions.
ShouldRebuildStep(i) ==
    /\ pc[i] = "should_rebuild"
    /\ LET tag == Tag(i)
           file == state_files[StateFileOf(Mode(i))]
           state == LoadState(state_files, Mode(i), KeyOf(Pair(i)))
           cpython_sha == head[Checkout(i)][1]
           translation_sha == IF tag # "en" THEN thead[LocaleDir(i)][1] ELSE 0
           stored == IF file.kind = "doc" /\ KeyOf(Pair(i)) \in DOMAIN file.doc
                     THEN file.doc[KeyOf(Pair(i))].cpython_sha ELSE cpython_sha
       IN  \/ /\ file.kind # "corrupt"
              /\ \E diff \in IF stored # cpython_sha THEN DiffLists ELSE {<<>>} :
                   LET r == ShouldRebuild(state, tag, cpython_sha, translation_sha, diff)
                   IN  /\ sr' = [sr EXCEPT ![i] =
                                   [called |-> TRUE, pair |-> Pair(i),
                                    state |-> state,
                                    cpython_sha |-> cpython_sha,
                                    translation_sha |-> translation_sha,
                                    diff |-> IF GitDiff \in r.ran THEN diff ELSE <<>>,
                                    result |-> r.result, ran |-> r.ran]]
                       /\ IF r.result # "False"
                          THEN /\ trigger' = [trigger EXCEPT ![i] = r.result]
                               /\ RunGoesOn(i, "should_rebuild")
                               /\ UNCHANGED steps
                          ELSE RunReturns(i, "None")
           \/ /\ RunRaises(i)
              /\ UNCHANGED sr
    /\ RunFrame
    /\ UNCHANGED << head, thead, state_files, www_root >>

\* run: build_venv(): python -m venv, pip install.
BuildVenv(i) ==
    /\ pc[i] = "build_venv"
    /\ sr' = [sr EXCEPT ![i] = NoCall]
    /\ \/ /\ steps' = [steps EXCEPT ![i] = @ \cup {"build_venv"}]
          /\ RunGoesOn(i, "build_venv")
          /\ UNCHANGED trigger
       \/ RunRaises(i)
    /\ RunFrame
    /\ UNCHANGED << head, thead, state_files, www_root >>

\* run: build(): the generator (make autobuild-...).
Build(i) ==
    /\ pc[i] = "build"
    /\ \/ /\ steps' = [steps EXCEPT ![i] = @ \cup {"build"}]
          /\ RunGoesOn(i, "build")
          /\ UNCHANGED trigger
       \/ RunRaises(i)
    /\ RunFrame
    /\ UNCHANGED << head, thead, state_files, sr, www_root >>

\* run: copy_build_to_webroot() up to the purge: chgrp/chmod, rsync, copy
\* of the archives; an exception of any of them leaves it. With nothing
\* changed, with --skip-cache-invalidation or without the CDN secrets no
\* request is sent and the function returns; otherwise the request is next.
\* target.mkdir comes first: the directory of the pair is in the web root
\* from then on, also when a later command raises.
CopyBuildToWebroot(i) ==
    /\ pc[i] = "copy_build_to_webroot"
    /\ LET target == <<Tag(i), Pair(i).version>>
           made == [www_root EXCEPT !.dirs = @ \cup {target}]
       IN  \/ /\ steps' = [steps EXCEPT ![i] = @ \cup {"copy_build_to_webroot"}]
              /\ RunGoesOn(i, "copy_build_to_webroot")
              /\ www_root' = made
              /\ UNCHANGED trigger
           \/ /\ pc' = [pc EXCEPT ![i] = "purge_surrogate_key"]
              /\ www_root' = made
              /\ UNCHANGED << build_succeeded, build_failed, cur, steps, trigger >>
           \/ /\ RunRaises(i)
              /\ www_root' \in {www_root, made}
    /\ RunFrame
    /\ UNCHANGED << head, thead, state_files, sr >>

\* copy_build_to_webroot: purge_surrogate_key's http.request(..., timeout=30).
\* It returns a response, or raises (timeout, connection error); the call
\* is in no try of its own, so the exception is one of run's try block.
PurgeSurrogateKey(i) ==
    /\ pc[i] = "purge_surrogate_key"
    /\ \/ /\ steps' = [steps EXCEPT ![i] = @ \cup {"copy_build_to_webroot"}]
          /\ RunGoesOn(i, "copy_build_to_webroot")
          /\ UNCHANGED trigger
       \/ RunRaises(i)
    /\ RunFrame
    /\ UNCHANGED << head, thead, state_files, sr, www_root >>

\* run: save_state(): parse the state file (a missing file is an empty
\* document), set the record of the key, write the document back in place
\* with Path.write_text. rev-parse or the parse can raise.
SaveState(i) ==
    /\ pc[i] = "save_state"
    /\ LET name == StateFileOf(Mode(i))
           file == state_files[name]
           tag == Tag(i)
           record == StateRecord(tag, trigger[i], head[Checkout(i)][1],
                                 IF tag # "en" THEN thead[LocaleDir(i)][1] ELSE 0)
       IN  \/ /\ file.kind # "corrupt"
              /\ state_files' =
                    [state_files EXCEPT ![name] =
                        DocFile(SaveStateDoc(file, KeyOf(Pair(i)), record))]
              /\ RunReturns(i, "True")
           \/ /\ RunRaises(i)
              /\ UNCHANGED state_files
    /\ RunFrame
    /\ UNCHANGED << head, thead, sr, www_root >>

\* The process dies (kill, power loss) inside save_state's write_text:
\* open(file, "w") has truncated the state file and none or a part of the
\* new text is in it. The operating system drops the lock.
CrashInSaveState(i) ==
    /\ pc[i] = "save_state"
    /\ state_files[StateFileOf(Mode(i))].kind # "corrupt"
    /\ \E left \in {DocFile(NoDoc), CorruptFile} :
          state_files' = [state_files EXCEPT ![StateFileOf(Mode(i))] = left]
    /\ pc' = [pc EXCEPT ![i] = "crashed"]
    /\ lock' = Unlocked(i)
    /\ UNCHANGED << args, sentry_sdk, lock_error, todo, cur, build_succeeded,
                    build_failed, head, thead, steps, sr, trigger, ret,
                    exit_status, call, returned, server, updated, www_root >>

\* build_docs after the loop: sitemap, 404 page, robots.txt, symlinks,
\* canonicals (any of them can raise: make_symlinks is then not called, or
\* left after some of its iterations, or done), then
\* return len(build_failed) == 0;
\* build_docs_with_lock maps it to EX_OK / EX_FAILURE and closes the lock;
\* main drops the value and the process exits with status 0.
BuildDocsEnd(i) ==
    /\ pc[i] = "loop"
    /\ todo[i] = <<>>
    /\ sr' = [sr EXCEPT ![i] = NoCall]
    /\ \/ /\ www_root' = MakeSymlinks(www_root, build_succeeded[i],
                                       Len(SymlinkIterations), i)
          /\ ret' = [ret EXCEPT ![i] =
                       IF build_failed[i] = {} THEN <<EX_OK>> ELSE <<EX_FAILURE>>]
          /\ lock' = Unlocked(i)
          /\ exit_status' = [exit_status EXCEPT ![i] = <<EX_OK>>]
          /\ pc' = [pc EXCEPT ![i] = "exited"]
          /\ UNCHANGED lock_error
       \/ /\ \E n \in 0..Len(SymlinkIterations) :
                www_root' = MakeSymlinks(www_root, build_succeeded[i], n, i)
          /\ Propagate(i)
    /\ UNCHANGED << args, sentry_sdk, todo, cur, build_succeeded, build_failed,
                    head, thead, state_files, steps, trigger, call, returned,
                    server, updated >>

Step(i) ==
    \/ BuildDocsWithLock(i)
    \/ BuildDocsStart(i)
    \/ LoopPop(i)
    \/ RunSkipsHtmlOnly(i)
    \/ Switch(i)
    \/ CloneTranslation(i)
    \/ ShouldRebuildStep(i)
    \/ BuildVenv(i)
    \/ Build(i)
    \/ CopyBuildToWebroot(i)
    \/ PurgeSurrogateKey(i)
    \/ SaveState(i)
    \/ CrashInSaveState(i)
    \/ BuildDocsEnd(i)

Next == \E i \in Instances : Step(i)

Spec == Init /\ [][Next]_vars

\* ------------------------------------------- functions called on their own
\* The variables of the processes: no process runs while a function is
\* called on its own.
program == << args, sentry_sdk, pc, lock, lock_error, todo, cur, build_succeeded,
              build_failed, head, thead, state_files, steps, sr, trigger, ret,
              exit_status, updated, www_root >>

NoProcess ==
    /\ args = [i \in Instances |-> Idle]
    /\ sentry_sdk = FALSE
    /\ pc = [i \in Instances |-> "idle"]
    /\ lock = [f \in LockFiles |-> 0]
    /\ lock_error = [i \in Instances |-> FALSE]
    /\ todo = [i \in Instances |-> <<>>]
    /\ cur = [i \in Instances |-> <<>>]
    /\ build_succeeded = [i \in Instances |-> {}]
    /\ build_failed = [i \in Instances |-> {}]
    /\ head = [c \in Checkouts |-> <<>>]
    /\ thead = [d \in LocaleDirs |-> <<>>]
    /\ state_files = [f \in StateFileNames |-> AbsentFile]
    /\ steps = [i \in Instances |-> {}]
    /\ sr = [i \in Instances |-> NoCall]
    /\ trigger = [i \in Instances |-> ""]
    /\ ret = [i \in Instances |-> <<>>]
    /\ exit_status = [i \in Instances |-> <<>>]
    /\ updated = [i \in Instances |-> FALSE]
    /\ www_root = EmptyWebRoot

\* What a call gives: a value, or the exception it raised.
Returns(value) == [raised |-> "", value |-> value]
Raises(exception) == [raised |-> exception]

\* ------------------------------------------------------------ version names
\* A str is the sequence of its characters.
Digits == <<"0", "1", "2", "3", "4", "5", "6", "7", "8", "9">>

\* int(c) of one decimal digit
DigitValue(c) == (CHOOSE d \in 1..Len(Digits) : Digits[d] = c) - 1

\* int(part) of a decimal numeral: leading zeros do not count.
RECURSIVE IntOf(_)
IntOf(part) ==
    IF Len(part) = 1 THEN DigitValue(part[1])
    ELSE 10 * IntOf(SubSeq(part, 1, Len(part) - 1)) + DigitValue(part[Len(part)])

\* str(n) of a natural number: the numeral without leading zeros.
RECURSIVE StrOf(_)
StrOf(n) ==
    IF n < 10 THEN <<Digits[n + 1]>>
    ELSE StrOf(n \div 10) \o <<Digits[(n % 10) + 1]>>

\* text.split(".")
RECURSIVE SplitDots(_)
SplitDots(text) ==
    IF \A k \in 1..Len(text) : text[k] # "." THEN <<text>>
    ELSE LET k == CHOOSE k \in 1..Len(text) :
                     text[k] = "." /\ \A j \in 1..(k - 1) : text[j] # "."
         IN  <<SubSeq(text, 1, k - 1)>> \o SplitDots(SubSeq(text, k + 1, Len(text)))

\* ".".join(parts)
RECURSIVE JoinDots(_)
JoinDots(parts) ==
    IF Len(parts) = 1 THEN parts[1]
    ELSE parts[1] \o <<".">> \o JoinDots(Tail(parts))

\* tuple(int(part) for part in version.split("."))
version_to_tuple(version) ==
    LET parts == SplitDots(version)
    IN  [k \in 1..Len(parts) |-> IntOf(parts[k])]

\* ".".join(str(part) for part in version_tuple)
tuple_to_version(version_tuple) ==
    JoinDots([k \in 1..Len(version_tuple) |-> StrOf(version_tuple[k])])

\* a < b for tuples of integers (lexicographic, a proper prefix is less)
TupleLess(a, b) ==
    \E k \in 1..(Len(b)) :
        /\ \A j \in 1..(k - 1) : j <= Len(a) /\ a[j] = b[j]
        /\ \/ k = Len(a) + 1
           \/ k <= Len(a) /\ a[k] < b[k]

\* sorted(map(version_to_tuple, set(available_versions)))
RECURSIVE SortedTuples(_)
SortedTuples(names) ==
    IF names = {} THEN <<>>
    ELSE LET least == CHOOSE n \in names : \A m \in names :
                         ~TupleLess(version_to_tuple(m), version_to_tuple(n))
         IN  <<version_to_tuple(least)>> \o SortedTuples(names \ {least})

\* bisect_left(a, x) on a sorted list: the number of elements below x.
bisect(a, x) == Cardinality({k \in 1..Len(a) : TupleLess(a[k], x)})

\* locate_nearest_version: the element at the insertion point of the target,
\* the last one when the insertion point is the end (IndexError). An empty
\* list of branches raises IndexError once more.
locate_nearest_version(available_versions, target_version) ==
    LET available_versions_tuples == SortedTuples(available_versions)
        target_version_tuple == version_to_tuple(target_version)
        at == bisect(available_versions_tuples, target_version_tuple)
    IN  IF at < Len(available_versions_tuples)
        THEN Returns(tuple_to_version(available_versions_tuples[at + 1]))
        ELSE IF available_versions_tuples # <<>>
        THEN Returns(tuple_to_version(
                        available_versions_tuples[Len(available_versions_tuples)]))
        ELSE Raises("IndexError")

\* Branch names a translation repository can have (they match
\* [0-9]+\.[0-9]+): 3.07 reads as 3.7, and 3.10 is above 3.9.
BranchNames ==
    { <<"2", ".", "7">>, <<"3", ".", "6">>, <<"3", ".", "7">>,
      <<"3", ".", "0", "7">>, <<"3", ".", "9">>, <<"3", ".", "1", "0">> }

\* The sets of at most n elements of S.
AtMost(S, n) == {T \in SUBSET S : Cardinality(T) <= n}

LocateCalls ==
    { [function |-> "locate_nearest_version",
       available_versions |-> a, target_version |-> t] :
        a \in AtMost(BranchNames, MaxAvailable) \ {{}}, t \in BranchNames }

CallLocateNearestVersion ==
    /\ call.function = "locate_nearest_version"
    /\ returned = <<>>
    /\ returned' = <<locate_nearest_version(call.available_versions,
                                            call.target_version)>>
    /\ UNCHANGED << call, program, server >>

\* ------------------------------------------------------- Version, Versions
\* Version.STATUSES
STATUSES == {"EOL", "security-fixes", "stable", "pre-release", "in development"}

\* Version.SYNONYMS
SYNONYMS ==
    ( "feature" :> "in development" @@ "bugfix" :> "stable" @@
      "security" :> "security-fixes" @@ "end-of-life" :> "EOL" @@
      "prerelease" :> "pre-release" )

\* Variant for C14: the status stored without the membership test.
VersionInitUnchecked(name, status, branch_or_tag) ==
    LET mapped == IF status \in DOMAIN SYNONYMS THEN SYNONYMS[status] ELSE status
    IN  Returns([name |-> name, branch_or_tag |-> branch_or_tag, status |-> mapped])

\* Version.__init__: SYNONYMS.get(status, status), ValueError outside
\* STATUSES.
VersionInit(name, status, branch_or_tag) ==
    LET mapped == IF status \in DOMAIN SYNONYMS THEN SYNONYMS[status] ELSE status
    IN  IF mapped \notin STATUSES THEN Raises("ValueError")
        ELSE Returns([name |-> name, branch_or_tag |-> branch_or_tag,
                      status |-> mapped])

\* sorted(versions, key=Version.as_tuple): a stable insertion sort.
RECURSIVE SortedVersions(_)
SortedVersions(versions) ==
    IF versions = <<>> THEN <<>>
    ELSE LET n == Len(versions)
             front == SortedVersions(SubSeq(versions, 1, n - 1))
             last == versions[n]
             at == Cardinality({k \in 1..(n - 1) :
                       ~TupleLess(version_to_tuple(last.name),
                                  version_to_tuple(front[k].name))})
         IN  SubSeq(front, 1, at) \o <<last>> \o SubSeq(front, at + 1, n - 1)

\* Versions.from_json: data is the list of the feed's items (name, status,
\* branch) in the feed's order. The list comprehension builds every
\* Version before anything is sorted: the first ValueError leaves from_json.
VersionsFromJson(data) ==
    LET made == [k \in 1..Len(data) |->
                    VersionInit(data[k].name, data[k].status, data[k].branch)]
    IN  IF \E k \in 1..Len(data) : made[k].raised # ""
        THEN Raises("ValueError")
        ELSE Returns(SortedVersions([k \in 1..Len(data) |-> made[k].value]))

\* Entries of the release-cycle feed: a name and its branch.
Releases ==
    { [name |-> <<"3", ".", "9">>, branch |-> <<"3", ".", "9">>],
      [name |-> <<"3", ".", "1", "0">>, branch |-> <<"3", ".", "1", "0">>],
      [name |-> <<"3", ".", "1", "4">>, branch |-> <<"m", "a", "i", "n">>] }

\* What the feed can give as a status: the two vocabularies and two
\* values of neither.
FeedStatuses == STATUSES \cup DOMAIN SYNONYMS \cup {"ex-release", ""}

\* The sequences of at most n elements of S, no name twice.
RECURSIVE SeqsAtMost(_, _)
SeqsAtMost(S, n) ==
    IF n = 0 THEN {<<>>}
    ELSE LET shorter == SeqsAtMost(S, n - 1)
             fresh(s) == {x \in S : \A k \in 1..Len(s) : s[k].name # x.name}
         IN  shorter \cup
             UNION {{Append(s, x) : x \in fresh(s)} :
                       s \in {t \in shorter : Len(t) = n - 1}}

\* The feeds: a JSON object has each name once; the statuses of an entry
\* are two synonyms, a status of the set and the two values of neither.
Feeds ==
    SeqsAtMost({[name |-> r.name, branch |-> r.branch, status |-> s] :
                  r \in Releases,
                  s \in {"bugfix", "security", "stable", "ex-release", ""}},
               MaxReleases)

VersionCalls ==
    { [function |-> "Version.__init__", name |-> r.name, status |-> s,
       branch_or_tag |-> r.branch] : r \in Releases, s \in FeedStatuses }
    \cup
    { [function |-> "Versions.from_json", data |-> d] : d \in Feeds }

CallVersionInit ==
    /\ call.function = "Version.__init__"
    /\ returned = <<>>
    /\ returned' = <<VersionInit(call.name, call.status, call.branch_or_tag)>>
    /\ UNCHANGED << call, program, server >>

CallVersionsFromJson ==
    /\ call.function = "Versions.from_json"
    /\ returned = <<>>
    /\ returned' = <<VersionsFromJson(call.data)>>
    /\ UNCHANGED << call, program, server >>

\* ----------------------------------------- Versions.filter, Languages.filter
\* Versions a catalog can hold (names and branches are only compared here).
CatalogVersions ==
    { [name |-> "3.9", status |-> "EOL", branch_or_tag |-> "3.9"],
      [name |-> "3.11", status |-> "security-fixes", branch_or_tag |-> "3.11"],
      [name |-> "3.13", status |-> "stable", branch_or_tag |-> "3.13"],
      [name |-> "3.14", status |-> "pre-release", branch_or_tag |-> "3.14"],
      [name |-> "3.15", status |-> "in development", branch_or_tag |-> "main"] }

\* Versions(_seq): any order, each name once.
Catalogs == SeqsAtMost(CatalogVersions, MaxReleases)

\* What filter is called with: nothing (the default ""), args.branch (None
\* or a str), or a list of names as in the tests.
BranchArguments ==
    { Str(""), None, Str("3.9"), Str("3.13"), Str("main"), List(<<>>),
      List(<<"3.9">>), List(<<"3.13">>), List(<<"3.13", "3.14">>) }

\* --languages: tags of the catalog and one that is not.
RequestedTags == SUBSET {"en", "fr", "xx"}

FilterCalls ==
    { [function |-> "Versions.filter", self |-> c, branch |-> b] :
        c \in Catalogs, b \in BranchArguments }
    \cup
    { [function |-> "Languages.filter", language_tags |-> t] : t \in RequestedTags }

CallVersionsFilter ==
    /\ call.function = "Versions.filter"
    /\ returned = <<>>
    /\ returned' = <<Returns(Versions_filter(call.self, call.branch))>>
    /\ UNCHANGED << call, program, server >>

\* Languages.filter has no raise and calls nothing that raises.
CallLanguagesFilter ==
    /\ call.function = "Languages.filter"
    /\ returned = <<>>
    /\ returned' = <<Returns(LanguagesFilter(call.language_tags))>>
    /\ UNCHANGED << call, program, server >>

\* ------------------------------------------------------------ changed_files
\* A directory is a function from the names in it to files and
\* directories; a file has a content and a modification time.
File(content, mtime) == [type |-> "file", content |-> content, mtime |-> mtime]
Dir(entries) == [type |-> "dir", entries |-> entries]

\* st_size of a file
SizeOf(content) == IF content = "xx" THEN 2 ELSE 1

\* filecmp._sig: (file type, st_size, st_mtime)
Sig(file) == <<file.type, SizeOf(file.content), file.mtime>>

\* filecmp.cmp(f1, f2, shallow=True), as dircmp calls it: equal signatures
\* are taken as equal files, the contents are read only otherwise.
FilesEqual(f1, f2) ==
    IF Sig(f1) = Sig(f2) THEN TRUE
    ELSE IF SizeOf(f1.content) # SizeOf(f2.content) THEN FALSE
    ELSE f1.content = f2.content

\* str(base) + "/": the directory of a changed index.html ("./" at the top).
DirectoryOf(base) == (IF base = <<>> THEN <<".">> ELSE base) \o <<"/">>

\* traverse(dircmp(left, right)): the names in both that are files and
\* differ (diff_files), then the same in the directories in both (subdirs).
\* The order of the list is left out.
RECURSIVE traverse(_, _, _)
traverse(left, right, base) ==
    LET common == DOMAIN left \cap DOMAIN right
        common_dirs == {n \in common : left[n].type = "dir" /\ right[n].type = "dir"}
        common_files == {n \in common : left[n].type = "file" /\ right[n].type = "file"}
        diff_files == {n \in common_files : ~FilesEqual(left[n], right[n])}
    IN  {Append(base, n) : n \in diff_files}
        \cup (IF "index.html" \in diff_files THEN {DirectoryOf(base)} ELSE {})
        \cup UNION {traverse(left[n].entries, right[n].entries, Append(base, n)) :
                       n \in common_dirs}

\* changed_files(left, right)
changed_files(left, right) == traverse(left, right, <<>>)

\* The files a tree can hold: "x" and "y" have the same size.
Files == {File("x", 1), File("y", 1), File("x", 2), File("xx", 1)}

\* The functions from a part of the names to the nodes.
DirsOf(names, nodes) == UNION {[S -> nodes] : S \in SUBSET names}

\* The trees: index.html and d at the top, d a file or a directory with
\* index.html in it or empty.
Trees ==
    {t \in DirsOf({"index.html", "d"},
                  Files \cup {Dir(e) : e \in DirsOf({"index.html"}, Files)}) :
        "index.html" \in DOMAIN t => t["index.html"].type = "file"}

ChangedFilesCalls ==
    { [function |-> "changed_files", left |-> l, right |-> r] :
        l \in Trees, r \in Trees }

CallChangedFiles ==
    /\ call.function = "changed_files"
    /\ returned = <<>>
    /\ returned' = <<Returns(changed_files(call.left, call.right))>>
    /\ UNCHANGED << call, program, server >>

\* ------------------------------------------------ build_docs: the order
\* build_docs up to the end of its loop, for the pairs it takes: the feed
\* is parsed and sorted (a ValueError leaves build_docs), filtered without
\* --branch, the todo list is built and popped until it is empty.
BuildDocsOrder(data, language_tags) ==
    LET versions == VersionsFromJson(data)
    IN  IF versions.raised # "" THEN versions
        ELSE Returns(PopOrder(TodoList(Versions_filter(versions.value, None),
                                       LanguagesFilter(language_tags))))

BuildDocsCalls ==
    { [function |-> "build_docs", data |-> d, language_tags |-> t] :
        d \in Feeds, t \in {{}, {"fr"}} }

CallBuildDocs ==
    /\ call.function = "build_docs"
    /\ returned = <<>>
    /\ returned' = <<BuildDocsOrder(call.data, call.language_tags)>>
    /\ UNCHANGED << call, program, server >>

\* ------------------------------------------------- Repository, called alone
\* update on a clone or on a directory that is none; switch on a clone, and
\* on a directory that is none, where every git -C fails.
RepositoryCalls ==
    { [function |-> "Repository.update", is_clone |-> c, ok |-> ok] :
        c \in BOOLEAN, ok \in [1..2 -> BOOLEAN] }
    \cup
    { [function |-> "Repository.switch", is_clone |-> TRUE, ok |-> ok] :
        ok \in [1..4 -> BOOLEAN] }
    \cup
    { [function |-> "Repository.switch", is_clone |-> FALSE,
       ok |-> [k \in 1..4 |-> FALSE]] }

CallRepositoryUpdate ==
    /\ call.function = "Repository.update"
    /\ returned = <<>>
    /\ returned' = <<Repository_update(call.is_clone, call.ok)>>
    /\ UNCHANGED << call, program, server >>

CallRepositorySwitch ==
    /\ call.function = "Repository.switch"
    /\ returned = <<>>
    /\ returned' = <<Repository_switch(call.ok)>>
    /\ UNCHANGED << call, program, server >>

\* --------------------------------------------------- DocBuilder, called alone
\* DocBuilder.html_only
HtmlOnly(select_output, quick, language) ==
    \/ select_output \in {"only-html", "only-html-en"}
    \/ quick
    \/ language.html_only

\* build: the make target; maketarget += "-html" adds a part.
MakeTarget(status, html_only) ==
    (IF status \in {"in development", "pre-release"}
     THEN <<"autobuild-dev">> ELSE <<"autobuild-stable">>)
    \o (IF html_only THEN <<"-html">> ELSE <<>>)

\* What run does for a pair to rebuild when no command fails: nothing for
\* an HTML-only language in a build without HTML; else make with the
\* target of build, then in copy_build_to_webroot the rsync of the HTML
\* with includes_html, and the copy of Doc/dist to archives/ unless quick.
Published(status, language, select_output, quick) ==
    IF language.html_only /\ ~IncludesHtml(select_output)
    THEN <<>>
    ELSE <<[command |-> "make",
            target |-> MakeTarget(status, HtmlOnly(select_output, quick, language))]>>
         \o (IF IncludesHtml(select_output)
             THEN <<[command |-> "rsync", target |-> <<"html">>]>> ELSE <<>>)
         \o (IF ~quick
             THEN <<[command |-> "cp", target |-> <<"archives">>]>> ELSE <<>>)

DocBuilderCalls ==
    { [function |-> "DocBuilder.run", status |-> s, language |-> l,
       select_output |-> m, quick |-> q] :
        s \in {"stable", "in development"},
        l \in {LanguageCatalog[k] : k \in 1..Len(LanguageCatalog)},
        m \in Modes, q \in BOOLEAN }

CallDocBuilderRun ==
    /\ call.function = "DocBuilder.run"
    /\ returned = <<>>
    /\ returned' = <<Returns(Published(call.status, call.language,
                                       call.select_output, call.quick))>>
    /\ UNCHANGED << call, program, server >>

\* ------------------------------------------------------------ specification
\* One call of one function, its arguments drawn from the sets above.
FunctionCalls ==
    LocateCalls \cup VersionCalls \cup FilterCalls \cup ChangedFilesCalls
    \cup RepositoryCalls \cup DocBuilderCalls \cup BuildDocsCalls

FunctionsInit ==
    /\ NoProcess
    /\ server = NoServer
    /\ call \in FunctionCalls
    /\ returned = <<>>

FunctionsNext ==
    \/ CallLocateNearestVersion
    \/ CallVersionInit
    \/ CallVersionsFromJson
    \/ CallVersionsFilter
    \/ CallLanguagesFilter
    \/ CallChangedFiles
    \/ CallRepositoryUpdate
    \/ CallRepositorySwitch
    \/ CallDocBuilderRun
    \/ CallBuildDocs

Functions == FunctionsInit /\ [][FunctionsNext]_vars

\* ------------------------------------------------------- build_docs_server.py
\* The server is one thread running an asyncio event loop: the task
\* child_waiter and the handler of each request run one at a time, each
\* until it awaits or returns. server.running says who runs ("loop": the
\* event loop itself, between two tasks); server.waiter is "ready" when
\* child_waiter is to be resumed and "sleeping" while asyncio.sleep(600) is
\* pending; children are the forked builds still running, zombies the ones
\* that exited and were not waited for; requests are the connections not
\* handled yet; polls counts the os.waitid calls child_waiter made since it
\* was last resumed.
ServerStarted ==
    [running |-> "loop", waiter |-> "ready", children |-> 0, zombies |-> 0,
     requests |-> 0, polls |-> 0]

Quiet == UNCHANGED << call, returned, program >>

\* GitHub posts to /hooks/github: the connection waits for the event loop.
Request ==
    /\ server.requests < MaxRequests
    /\ server' = [server EXCEPT !.requests = @ + 1]
    /\ Quiet

\* A forked build_docs.py exits.
ChildExits ==
    /\ server.children > 0
    /\ server' = [server EXCEPT !.children = @ - 1, !.zombies = @ + 1]
    /\ Quiet

\* The event loop resumes child_waiter (at start, or after its sleep).
ResumeChildWaiter ==
    /\ server.running = "loop"
    /\ server.waiter = "ready"
    /\ server' = [server EXCEPT !.running = "child_waiter", !.polls = 0]
    /\ Quiet

\* One turn of child_waiter's while True: os.waitid(P_ALL, 0, WNOHANG |
\* WEXITED) returns the status of a child that exited, returns None when
\* there are children and none has exited, and raises ChildProcessError
\* when there is no child. A returned value is logged and the loop goes
\* on; only the except branch awaits (asyncio.sleep(600)).
Waitid ==
    /\ server.running = "child_waiter"
    /\ server.polls < MaxPolls
    /\ IF server.zombies > 0
       THEN server' = [server EXCEPT !.zombies = @ - 1, !.polls = @ + 1]
       ELSE IF server.children > 0
       THEN server' = [server EXCEPT !.polls = @ + 1]
       ELSE server' = [server EXCEPT !.polls = @ + 1, !.running = "loop",
                                     !.waiter = "sleeping"]
    /\ Quiet

\* asyncio.sleep(600) is over: child_waiter is ready to be resumed.
SleepOver ==
    /\ server.waiter = "sleeping"
    /\ server' = [server EXCEPT !.waiter = "ready"]
    /\ Quiet

\* The event loop runs hook for a waiting request, to its end: the event
\* is no push or touches no file of Doc and is answered, or a build is
\* forked (os.fork, execl of build_docs.py in the child) and it is answered.
Hook ==
    /\ server.running = "loop"
    /\ server.requests > 0
    /\ \/ server' = [server EXCEPT !.requests = @ - 1]
       \/ /\ server.children + server.zombies < MaxChildren
          /\ server' = [server EXCEPT !.requests = @ - 1, !.children = @ + 1]
    /\ Quiet

ServerInit ==
    /\ NoProcess
    /\ call = NoFunction
    /\ returned = <<>>
    /\ server = ServerStarted

ServerNext ==
    \/ Request
    \/ ChildExits
    \/ ResumeChildWaiter
    \/ Waitid
    \/ SleepOver
    \/ Hook

Server == ServerInit /\ [][ServerNext]_vars

\* ------------------------------------------------------------------ claims
\* A process is inside build_docs: it holds the lock and has not left.
InBuildDocs(i) == pc[i] \notin {"idle", "main", "exited", "crashed"}

\* The record a state file holds under a key: <<>> or <<record>>.
RecordIn(files, name, key) ==
    IF files[name].kind = "doc" /\ key \in DOMAIN files[name].doc
    THEN <<files[name].doc[key]>> ELSE <<>>

\* Process i leaves save_state normally in this step: run returns True.
SaveStateReturns(i) ==
    /\ pc[i] = "save_state"
    /\ pc'[i] = "loop"
    /\ Pair(i) \in build_succeeded'[i]

\* C1 (as claimed): whatever step of a pair raises, the exception is
\* recorded as that pair's failure and every remaining pair of the work
\* list is still processed: a process that has left build_docs has an empty
\* todo list.
C1_EveryPairProcessed ==
    \A i \in Instances : pc[i] = "exited" => todo[i] = <<>>

\* C2 (as claimed): the exit status of the process is non-zero if and only
\* if a selected pair failed or the lock could not be acquired. Stated for
\* the processes whose build_docs_with_lock returned (no exception left
\* build_docs).
C2_ExitStatusTellsFailure ==
    \A i \in Instances :
        (pc[i] = "exited" /\ ret[i] # <<>>) =>
            (exit_status[i] # <<EX_OK>> <=> (build_failed[i] # {} \/ lock_error[i]))

\* C3: when the lock file of the output mode is held, build_docs_with_lock
\* returns EX_FAILURE at once, having started no work, and two processes
\* with the same lock file are never inside build_docs together.
C3_LockExcludes ==
    /\ \A i, j \in Instances :
          (i # j /\ args[i].started /\ args[j].started
             /\ LockFileOf(Mode(i)) = LockFileOf(Mode(j)))
          => ~(InBuildDocs(i) /\ InBuildDocs(j))
    /\ \A i \in Instances :
          lock_error[i] =>
             /\ pc[i] = "exited"
             /\ ret[i] = <<EX_FAILURE>>
             /\ todo[i] = <<>> /\ cur[i] = <<>> /\ steps[i] = {}
             /\ build_succeeded[i] = {} /\ build_failed[i] = {}
             /\ sr[i] = NoCall

\* C3 witness: one process got LockError while the other is inside build_docs.
C3_Witness ==
    \E i, j \in Instances : i # j /\ lock_error[i] /\ InBuildDocs(j)

\* C4: the record of a key is written only by the save_state of a run call
\* in which the generator ran and the publish step completed, and a run
\* that fails before save_state leaves the record of its key as it was.
C4_StateWrittenAfterPublish ==
    [][ /\ \A name \in StateFileNames, key \in Keys :
             ( /\ RecordIn(state_files', name, key) # <<>>
               /\ RecordIn(state_files', name, key) # RecordIn(state_files, name, key) )
             => \E i \in Instances :
                   /\ SaveStateReturns(i)
                   /\ StateFileOf(Mode(i)) = name
                   /\ KeyOf(Pair(i)) = key
                   /\ {"build", "copy_build_to_webroot"} \subseteq steps[i]
        /\ \A i \in Instances :
             ( /\ pc[i] \in {"run", "clone_translation", "should_rebuild",
                             "build_venv", "build", "copy_build_to_webroot",
                             "purge_surrogate_key"}
               /\ pc'[i] = "loop" )
             => RecordIn(state_files', StateFileOf(Mode(i)), KeyOf(Pair(i)))
                  = RecordIn(state_files, StateFileOf(Mode(i)), KeyOf(Pair(i)))
      ]_vars

\* C4 witness: a pair was built, published and its record saved.
C4_Witness ==
    \E i \in Instances : \E p \in build_succeeded[i] :
        RecordIn(state_files, StateFileOf(Mode(i)), KeyOf(p)) # <<>>

\* C5: right after save_state, with the source head (and the translation
\* head) where save_state read them, should_rebuild returns False, whatever
\* git diff would print.
C5_SaveThenNoRebuild ==
    [][ \A i \in Instances :
          SaveStateReturns(i) =>
             \A diff \in DiffLists :
                ShouldRebuild(LoadState(state_files', Mode(i), KeyOf(Pair(i))),
                              Tag(i), head'[Checkout(i)][1],
                              IF Tag(i) # "en" THEN thead'[LocaleDir(i)][1] ELSE 0,
                              diff).result = "False"
      ]_vars

\* C5 witness: the state of a translation was saved with the source and the
\* translation at different revisions.
C5_Witness ==
    \E i \in Instances : \E p \in build_succeeded[i] :
        /\ p.language # "en"
        /\ LET r == RecordIn(state_files, StateFileOf(Mode(i)), KeyOf(p))
           IN  r # <<>> /\ r[1].translation_sha # <<r[1].cpython_sha>>

\* C6: with the state file absent or without a record under the pair's key,
\* should_rebuild returns "no previous state" and runs no git command.
C6_NoPreviousState ==
    \A i \in Instances :
        sr[i].called =>
            LET file == state_files[StateFileOf(Mode(i))]
            IN  ( \/ file.kind = "absent"
                  \/ file.kind = "doc" /\ KeyOf(sr[i].pair) \notin DOMAIN file.doc )
                => sr[i].result = "no previous state" /\ sr[i].ran = {}

\* C6 witness: should_rebuild ran on a state file that exists and holds
\* records of other keys only.
C6_Witness ==
    \E i \in Instances :
        /\ sr[i].called
        /\ LET file == state_files[StateFileOf(Mode(i))]
           IN  /\ file.kind = "doc"
               /\ DOMAIN file.doc # {}
               /\ KeyOf(sr[i].pair) \notin DOMAIN file.doc

\* C7: for a translation with a stored record, a translation head that
\* differs from the stored translation_sha gives "new translations", changed
\* source or not; for English the translation revision is never asked for.
C7_TranslationFirst ==
    \A i \in Instances :
        (sr[i].called /\ sr[i].state # <<>>) =>
            /\ ( /\ sr[i].pair.language # "en"
                 /\ <<sr[i].translation_sha>> # sr[i].state[1].translation_sha )
               => sr[i].result = "new translations"
            /\ sr[i].pair.language = "en" => RevParseTranslation \notin sr[i].ran

\* C7 witness: both the translation and the source moved since the record.
C7_Witness ==
    \E i \in Instances :
        /\ sr[i].called /\ sr[i].state # <<>>
        /\ sr[i].pair.language # "en"
        /\ <<sr[i].translation_sha>> # sr[i].state[1].translation_sha
        /\ sr[i].cpython_sha # sr[i].state[1].cpython_sha

\* A path lies under a directory.
Under(path, dir) ==
    Len(path) > Len(dir) /\ SubSeq(path, 1, Len(dir)) = dir

\* C8 (as claimed): with a stored record and an unchanged translation
\* revision, should_rebuild returns a reason exactly when the source
\* revision changed and a changed path lies under Doc/ or Misc/NEWS.d/.
C8_RebuildIffDocsPathChanged ==
    \A i \in Instances :
        ( /\ sr[i].called /\ sr[i].state # <<>>
          /\ ( sr[i].pair.language # "en"
               => <<sr[i].translation_sha>> = sr[i].state[1].translation_sha ) )
        => ( sr[i].result # "False"
             <=> /\ sr[i].cpython_sha # sr[i].state[1].cpython_sha
                 /\ \E k \in 1..Len(sr[i].diff) :
                       \/ Under(sr[i].diff[k], <<"Doc">>)
                       \/ Under(sr[i].diff[k], <<"Misc", "NEWS.d">>) )

\* C9: save_state of key K keeps every other key of its state file with
\* the record it had, adds nothing but K, and leaves the other state files
\* alone.
C9_SaveStateKeepsOtherKeys ==
    [][ \A i \in Instances :
          SaveStateReturns(i) =>
             LET name == StateFileOf(Mode(i))
                 old == state_files[name]
                 new == state_files'[name]
             IN  /\ new.kind = "doc"
                 /\ DOMAIN new.doc = (DOMAIN old.doc) \cup {KeyOf(Pair(i))}
                 /\ \A k \in (DOMAIN old.doc) \ {KeyOf(Pair(i))} :
                       new.doc[k] = old.doc[k]
                 /\ \A other \in StateFileNames \ {name} :
                       state_files'[other] = state_files[other]
      ]_vars

\* C9 witness: a state file holds two records while another state file
\* holds a record too.
C9_Witness ==
    \E name, other \in StateFileNames :
        /\ name # other
        /\ state_files[name].kind = "doc"
        /\ Cardinality(DOMAIN state_files[name].doc) >= 2
        /\ state_files[other].kind = "doc"
        /\ DOMAIN state_files[other].doc # {}

\* C10 (as claimed): when the process dies inside save_state's write, the
\* records of the other keys are still in the state file, unchanged.
C10_CrashKeepsOtherKeys ==
    [][ \A i \in Instances :
          (pc[i] = "save_state" /\ pc'[i] = "crashed") =>
             LET name == StateFileOf(Mode(i))
             IN  \A key \in Keys \ {KeyOf(Pair(i))} :
                    RecordIn(state_files', name, key) = RecordIn(state_files, name, key)
      ]_vars

\* C18 (as claimed): a purge request that fails marks no pair as failed and
\* does not keep save_state from running: from the request, the process
\* goes on to save_state with build_failed as it was.
C18_PurgeFailureIsHarmless ==
    [][ \A i \in Instances :
          (pc[i] = "purge_surrogate_key" /\ pc'[i] # pc[i]) =>
             /\ pc'[i] = "save_state"
             /\ build_failed'[i] = build_failed[i]
      ]_vars

\* a <= b for tuples of integers
TupleAtMost(a, b) == ~TupleLess(b, a)

\* C11 (as claimed): locate_nearest_version returns a member of the
\* available set: the least one at or above the target in numeric-tuple
\* order, the greatest one when the target is above all of them, and the
\* target itself when it is available.
C11_LeastAtOrAbove ==
    (call.function = "locate_nearest_version" /\ returned # <<>>) =>
        LET available == call.available_versions
            target == version_to_tuple(call.target_version)
            above == {a \in available : TupleAtMost(target, version_to_tuple(a))}
        IN  /\ returned[1].raised = ""
            /\ returned[1].value \in available
            /\ LET found == version_to_tuple(returned[1].value)
               IN  IF above # {}
                   THEN /\ returned[1].value \in above
                        /\ \A a \in above : TupleAtMost(found, version_to_tuple(a))
                   ELSE \A a \in available : TupleAtMost(version_to_tuple(a), found)
            /\ call.target_version \in available
                  => returned[1].value = call.target_version

\* Version a is strictly closer to target t than version r, for versions of
\* two numbers each, in the cases where every distance that respects the
\* numeric order agrees: a lies between t and r, or the three have the
\* same first number and the second number of a is nearer to that of t.
StrictlyCloser(a, r, t) ==
    LET gap(x) == IF x[2] < t[2] THEN t[2] - x[2] ELSE x[2] - t[2]
    IN  \/ TupleAtMost(t, a) /\ TupleLess(a, r)
        \/ TupleLess(r, a) /\ TupleAtMost(a, t)
        \/ a[1] = t[1] /\ r[1] = t[1] /\ gap(a) < gap(r)

\* C12 (as claimed): no available branch is strictly closer to the target
\* than the one locate_nearest_version returns.
C12_NoneCloser ==
    (call.function = "locate_nearest_version" /\ returned # <<>>) =>
        LET target == version_to_tuple(call.target_version)
            found == version_to_tuple(returned[1].value)
        IN  /\ returned[1].raised = ""
            /\ \A a \in call.available_versions :
                  ~StrictlyCloser(version_to_tuple(a), found, target)

\* The feed entries whose status is one of the set, synonyms mapped.
ValidEntries(data) ==
    {k \in 1..Len(data) :
        data[k].status \in {"EOL", "security-fixes", "stable", "pre-release",
                            "in development", "feature", "bugfix", "security",
                            "end-of-life", "prerelease"}}

\* C13 (as claimed): Versions.from_json does not abort on entries with an
\* unrecognized status: it returns a catalog of exactly the entries with a
\* valid status.
C13_InvalidStatusSkipped ==
    (call.function = "Versions.from_json" /\ returned # <<>>) =>
        /\ returned[1].raised = ""
        /\ {v.name : v \in {returned[1].value[k] : k \in 1..Len(returned[1].value)}}
              = {call.data[k].name : k \in ValidEntries(call.data)}
        /\ Len(returned[1].value) = Cardinality(ValidEntries(call.data))

\* The Version objects a call has made.
VersionsMade ==
    IF returned = <<>> \/ returned[1].raised # "" THEN {}
    ELSE IF call.function = "Version.__init__" THEN {returned[1].value}
    ELSE IF call.function = "Versions.from_json"
    THEN {returned[1].value[k] : k \in 1..Len(returned[1].value)}
    ELSE {}

Kth(S, k) == CHOOSE n \in S : Cardinality({m \in S : m < n}) = k - 1

\* Sequence r is made of the entries of sequence s at the positions of
\* set at, in the order of s.
IsSelection(r, s, at) ==
    /\ Len(r) = Cardinality(at)
    /\ \A k \in 1..Len(r) : r[k] = s[Kth(at, k)]

\* C15: Versions.filter without a branch returns exactly the entries whose
\* status is neither EOL nor security-fixes, in catalog order.
C15_DefaultFilterIsLive ==
    ( /\ call.function = "Versions.filter" /\ returned # <<>>
      /\ call.branch \in {Str(""), None} ) =>
        /\ returned[1].raised = ""
        /\ IsSelection(returned[1].value, call.self,
                       {k \in 1..Len(call.self) :
                           /\ call.self[k].status # "EOL"
                           /\ call.self[k].status # "security-fixes"})

\* C15 witness: the default filter dropped the entry between two it kept,
\* on a catalog that is not in version order.
C15_Witness ==
    /\ call.function = "Versions.filter" /\ returned # <<>>
    /\ call.branch = Str("")
    /\ Len(call.self) = 3
    /\ call.self[1].name = "3.15" /\ call.self[3].name = "3.13"
    /\ call.self[2].status = "security-fixes"
    /\ Len(returned[1].value) = 2

\* C16 (as claimed): Versions.filter with a list of names returns exactly
\* the entries whose name is in the list, in catalog order, whatever their
\* status.
C16_FilterByNames ==
    ( /\ call.function = "Versions.filter" /\ returned # <<>>
      /\ call.branch.type = "list" /\ call.branch.value # <<>> ) =>
        /\ returned[1].raised = ""
        /\ IsSelection(returned[1].value, call.self,
                       {k \in 1..Len(call.self) :
                           \E j \in 1..Len(call.branch.value) :
                               call.self[k].name = call.branch.value[j]})

\* C17 (as claimed): Languages.filter with tags returns the entries with
\* those tags in catalog order and fails with a lookup error when a tag is
\* not in the catalog; without tags it returns the whole catalog.
C17_UnknownTagFails ==
    (call.function = "Languages.filter" /\ returned # <<>>) =>
        IF call.language_tags = {}
        THEN returned[1].raised = "" /\ returned[1].value = LanguageCatalog
        ELSE IF call.language_tags \subseteq LanguageTags
        THEN /\ returned[1].raised = ""
             /\ IsSelection(returned[1].value, LanguageCatalog,
                            {k \in 1..Len(LanguageCatalog) :
                                LanguageCatalog[k].tag \in call.language_tags})
        ELSE returned[1].raised = "LookupError"

\* The files of a tree at any depth, each with its path from the top.
RECURSIVE FilesIn(_, _)
FilesIn(dir, base) ==
    {[path |-> Append(base, n), content |-> dir[n].content] :
        n \in {m \in DOMAIN dir : dir[m].type = "file"}}
    \cup UNION {FilesIn(dir[n].entries, Append(base, n)) :
                   n \in {m \in DOMAIN dir : dir[m].type = "dir"}}

\* C19 (as claimed): changed_files(built, live) returns the path of every
\* file of the built tree, at any depth, that the live tree does not have
\* with the same content: a file that differs, or one only in the built tree.
C19_DifferentOrOnlyInBuilt ==
    (call.function = "changed_files" /\ returned # <<>>) =>
        \A f \in FilesIn(call.left, <<>>) :
            f \notin FilesIn(call.right, <<>>) => f.path \in returned[1].value

\* C20 (as claimed): a file whose content differs between the built and
\* the live tree is reported, also when both copies have the same size and
\* the same modification time.
C20_ContentChangeDetected ==
    (call.function = "changed_files" /\ returned # <<>>) =>
        \A f \in FilesIn(call.left, <<>>), g \in FilesIn(call.right, <<>>) :
            (f.path = g.path /\ f.content # g.content)
               => f.path \in returned[1].value

\* C26: when should_rebuild returns False, run returns at once: the step
\* that made the call takes the process back to the loop of build_docs, so
\* no virtual environment is built, the generator is not run, nothing is
\* published and no purge is requested; no state file is written, and the
\* pair is added neither to build_succeeded nor to build_failed.
C26_NoRebuildNoEffect ==
    [][ \A i \in Instances :
          (pc[i] = "should_rebuild" /\ sr'[i] # sr[i] /\ sr'[i].result = "False") =>
             /\ pc'[i] = "loop"
             /\ steps'[i] = {}
             /\ state_files' = state_files
             /\ build_succeeded'[i] = build_succeeded[i]
             /\ build_failed'[i] = build_failed[i]
             /\ Pair(i) \notin build_succeeded'[i] \cup build_failed'[i]
      ]_vars

\* A pair was skipped: should_rebuild returned False and the process is
\* back in the loop with the pair in neither set.
C26_Witness ==
    \E i \in Instances :
       /\ pc[i] = "loop"
       /\ sr[i].called
       /\ sr[i].result = "False"
       /\ sr[i].pair \notin build_succeeded[i] \cup build_failed[i]
       /\ state_files[StateFileOf(Mode(i))].kind = "doc"

\* C28 (as claimed): two processes that hold different lock files never
\* work in the same directory below build_root: the CPython clones, the
\* translation clones and the venv directories they write to are distinct.
C28_DisjointWorkingDirectories ==
    \A i, j \in Instances :
       (i # j /\ InBuildDocs(i) /\ InBuildDocs(j)
          /\ LockFileOf(Mode(i)) # LockFileOf(Mode(j)))
       => WorkingDirectories(i) \cap WorkingDirectories(j) = {}

\* The steps of run after cpython_repo.switch returned.
AfterSwitch ==
    {"clone_translation", "should_rebuild", "build_venv", "build",
     "copy_build_to_webroot", "purge_surrogate_key", "save_state"}

\* C23 (as claimed): a pair's checkout is switched, and the pair built, only
\* after the CPython clone was updated in this run of build_docs (cloned when
\* absent, fetched otherwise), with sentry_sdk or without it.
C23_UpdatedBeforeSwitch ==
    \A i \in Instances : pc[i] \in AfterSwitch => updated[i]

\* build_docs of process i returned (to build_docs_with_lock).
Completed(i) == pc[i] = "exited" /\ ret[i] # <<>> /\ ~lock_error[i]

\* C21: a link 3, 2 or dev of a language is made or made to point
\* elsewhere only by a process leaving build_docs, only to the directory
\* make_symlinks computes for the name, only when the pair of that version
\* and the language is in the build_succeeded of that process and the
\* directory is in the web root; a link that already points at that
\* directory is left as it is.
C21_AliasOnlyToBuiltTarget ==
    [][ \A l \in Links :
          www_root'.links[l] # www_root.links[l] =>
             /\ www_root'.links[l] # <<>>
             /\ LET directory == www_root'.links[l][1].directory
                IN  /\ directory = SymlinkTarget(l[2])
                    /\ <<l[1], directory>> \in www_root.dirs
                    /\ ~(LinkExists(www_root, l)
                           /\ www_root.links[l][1].directory = directory)
                    /\ \E i \in Instances :
                          /\ pc[i] = "loop" /\ pc'[i] = "exited"
                          /\ [version |-> directory, language |-> l[1]]
                                \in build_succeeded[i]
      ]_vars

\* Two runs built 3.14/en: /dev/, which pointed at 3.13, was made to point
\* at 3.14 by the first to finish, and the other one left it in place.
C21_Witness ==
    \E i, j \in Instances :
       /\ i # j /\ Completed(i) /\ Completed(j)
       /\ [version |-> "3.14", language |-> "en"]
             \in build_succeeded[i] \cap build_succeeded[j]
       /\ <<"en", "3.13">> \in www_root.dirs
       /\ www_root.links[<<"en", "dev">>] = <<Link("3.14", i)>>

\* The link `name` of a language points at the directory of the version.
PointsAt(www, tag, name, directory) ==
    /\ www.links[<<tag, name>>] # <<>>
    /\ www.links[<<tag, name>>][1].directory = directory

\* C30 (as claimed): when build_docs returns, and no other run is under
\* way, every language whose directory of the current stable version is in
\* the web root has its link 3 pointing at it, and every language whose
\* directory of the version in development is there has its link dev
\* pointing at it -- whether the run built the pair or skipped it.
C30_AliasesFollowDirectories ==
    [][ \A i \in Instances :
          (/\ pc[i] = "loop" /\ pc'[i] = "exited" /\ ret'[i] # <<>>
           /\ \A j \in Instances \ {i} : ~InBuildDocs(j))
          => \A tag \in LanguageTags :
                /\ <<tag, CurrentStable.name>> \in www_root'.dirs
                      => PointsAt(www_root', tag, "3", CurrentStable.name)
                /\ <<tag, CurrentDev.name>> \in www_root'.dirs
                      => PointsAt(www_root', tag, "dev", CurrentDev.name)
      ]_vars

\* How many times a command is in a sequence of commands.
Count(commands, command) ==
    Cardinality({k \in 1..Len(commands) : commands[k] = command})

\* C22 (as claimed): for a language with html_only set, the generator is
\* run with an HTML-only target and nothing is copied to archives/,
\* whatever quick and select_output are.
C22_HtmlOnlyLanguageNoArchives ==
    (call.function = "DocBuilder.run" /\ returned # <<>> /\ call.language.html_only)
    => \A k \in 1..Len(returned[1].value) :
          LET step == returned[1].value[k]
          IN  /\ step.command = "make" => step.target[Len(step.target)] = "-html"
              /\ step.command # "cp"

\* C24: update on a clone runs git fetch and no git clone: once when the
\* first fetch succeeds; twice, never more, when it fails, and update then
\* returns when the second fetch succeeds and raises its exception when it
\* fails. On a directory that is no clone, update runs git clone and no
\* git fetch.
C24_FetchRetriedOnce ==
    (call.function = "Repository.update" /\ returned # <<>>) =>
        LET did == returned[1]
            fetches == Count(did.commands, "fetch")
        IN  IF call.is_clone
            THEN /\ Count(did.commands, "clone") = 0
                 /\ fetches = (IF call.ok[1] THEN 1 ELSE 2)
                 /\ did.raised = "" <=> (call.ok[1] \/ call.ok[2])
            ELSE /\ Count(did.commands, "clone") = 1
                 /\ fetches = 0

\* The first fetch failed, the second one succeeded and update returned.
C24_Witness ==
    /\ call.function = "Repository.update"
    /\ call.is_clone /\ ~call.ok[1] /\ call.ok[2]
    /\ returned # <<>>
    /\ returned[1].raised = ""
    /\ returned[1].commands = <<"fetch", "sleep", "fetch">>

\* C25 (as claimed): when update or switch fails on a clone, the directory
\* is deleted and cloned again, once, before the failure is propagated.
C25_RecloneBeforeFailure ==
    (/\ call.function \in {"Repository.update", "Repository.switch"}
     /\ call.is_clone
     /\ returned # <<>>
     /\ returned[1].raised # "")
    => /\ Count(returned[1].commands, "rmtree") = 1
       /\ Count(returned[1].commands, "clone") = 1

\* The place of a language in config.toml.
CatalogIndex(tag) ==
    CHOOSE k \in 1..Len(LanguageCatalog) : LanguageCatalog[k].tag = tag

C29_YieldBetweenPolls == server.polls <= 1

====
